---- MODULE Spec2Model ----
(***************************************************************************)
(* The two oracle-program phases of seda-polymarket-feed                   *)
(* (src/src/execution_phase.rs, src/src/tally_phase.rs) and the ABI        *)
(* encoding exercised by src/test_abi.rs.                                  *)
(*                                                                         *)
(* Byte strings are sequences of integers 0..255.  A u64 (and every wider  *)
(* intermediate value) is an exact natural number written as a             *)
(* little-endian sequence of bytes without a high zero byte, so that the   *)
(* 64-bit width, its overflow and the 53-bit significand of an f64 are     *)
(* the real ones.                                                          *)
(***************************************************************************)
EXTENDS Integers, Sequences, FiniteSets

VARIABLES overflowChecks, reveals, tally, dr_inputs, series_response, exec, scaled_prices,
          abi_encoded

vars ==
    <<overflowChecks, reveals, tally, dr_inputs, series_response, exec, scaled_prices,
      abi_encoded>>

(***************************************************************************)
(* Exact natural numbers                                                   *)
(***************************************************************************)
RECURSIVE Norm(_)
Norm(x) ==
    IF x = <<>> THEN <<>>
    ELSE IF x[Len(x)] = 0 THEN Norm(SubSeq(x, 1, Len(x) - 1))
    ELSE x

\* x * k + c, for a small k > 0 and a small c >= 0
RECURSIVE MulSmall(_, _, _)
MulSmall(x, k, c) ==
    IF x = <<>>
    THEN IF c = 0 THEN <<>> ELSE <<c % 256>> \o MulSmall(<<>>, k, c \div 256)
    ELSE LET t == x[1] * k + c
         IN  <<t % 256>> \o MulSmall(Tail(x), k, t \div 256)

\* quotient and remainder of x by a small d > 0, from the high byte down
RECURSIVE DivLoop(_, _, _, _, _)
DivLoop(x, d, i, r, acc) ==
    IF i = 0 THEN [q |-> Norm(acc), r |-> r]
    ELSE LET t == r * 256 + x[i]
         IN  DivLoop(x, d, i - 1, t % d, <<t \div d>> \o acc)

DivSmall(x, d) == DivLoop(x, d, Len(x), 0, <<>>)

RECURSIVE AddLoop(_, _, _)
AddLoop(x, y, c) ==
    IF x = <<>> /\ y = <<>>
    THEN IF c = 0 THEN <<>> ELSE <<c>>
    ELSE LET a == IF x = <<>> THEN 0 ELSE x[1]
             b == IF y = <<>> THEN 0 ELSE y[1]
             t == a + b + c
         IN  <<t % 256>>
               \o AddLoop(IF x = <<>> THEN <<>> ELSE Tail(x),
                          IF y = <<>> THEN <<>> ELSE Tail(y), t \div 256)

BigAdd(x, y) == AddLoop(x, y, 0)

RECURSIVE LessFrom(_, _, _)
LessFrom(x, y, i) ==
    IF i = 0 THEN FALSE
    ELSE IF x[i] # y[i] THEN x[i] < y[i]
    ELSE LessFrom(x, y, i - 1)

BigLess(x, y) ==
    IF Len(x) # Len(y) THEN Len(x) < Len(y) ELSE LessFrom(x, y, Len(x))

BigLeq(x, y) == ~BigLess(y, x)

\* a small natural number as an exact natural number
FromInt(n) == MulSmall(<<>>, 1, n)

(***************************************************************************)
(* u64                                                                     *)
(***************************************************************************)
U64_MAX == <<255, 255, 255, 255, 255, 255, 255, 255>>

FitsU64(x) == Len(x) <= 8

\* the low 64 bits of x
WrapU64(x) == IF FitsU64(x) THEN x ELSE Norm(SubSeq(x, 1, 8))

\* u64::to_string, as bytes: the decimal digits, high digit first
RECURSIVE DecimalDigits(_, _)
DecimalDigits(x, acc) ==
    IF x = <<>> THEN acc
    ELSE LET qr == DivSmall(x, 10)
         IN  DecimalDigits(qr.q, <<48 + qr.r>> \o acc)

to_string(x) == IF x = <<>> THEN <<48>> ELSE DecimalDigits(x, <<>>)

(***************************************************************************)
(* Text: String::from_utf8, str::trim, str::parse::<u64>                   *)
(***************************************************************************)
IsCont(b) == b >= 128 /\ b <= 191

\* String::from_utf8 succeeds exactly on well-formed UTF-8
RECURSIVE IsUtf8(_)
IsUtf8(b) ==
    IF b = <<>> THEN TRUE
    ELSE LET c == b[1]
             n == Len(b)
         IN  IF c < 128 THEN IsUtf8(Tail(b))
             ELSE IF c >= 194 /\ c <= 223
             THEN n >= 2 /\ IsCont(b[2]) /\ IsUtf8(SubSeq(b, 3, n))
             ELSE IF c >= 224 /\ c <= 239
             THEN /\ n >= 3
                  /\ IsCont(b[2]) /\ IsCont(b[3])
                  /\ (c = 224 => b[2] >= 160)
                  /\ (c = 237 => b[2] <= 159)
                  /\ IsUtf8(SubSeq(b, 4, n))
             ELSE IF c >= 240 /\ c <= 244
             THEN /\ n >= 4
                  /\ IsCont(b[2]) /\ IsCont(b[3]) /\ IsCont(b[4])
                  /\ (c = 240 => b[2] >= 144)
                  /\ (c = 244 => b[2] <= 143)
                  /\ IsUtf8(SubSeq(b, 5, n))
             ELSE FALSE

\* the UTF-8 encodings of the code points with the White_Space property
WhiteSpace ==
    {<<9>>, <<10>>, <<11>>, <<12>>, <<13>>, <<32>>, <<194, 133>>, <<194, 160>>,
     <<225, 154, 128>>, <<226, 128, 168>>, <<226, 128, 169>>, <<226, 128, 175>>,
     <<226, 129, 159>>, <<227, 128, 128>>}
      \cup {<<226, 128, k>> : k \in 128..138}

StartsWithSpace(s) == \E w \in WhiteSpace : Len(s) >= Len(w) /\ SubSeq(s, 1, Len(w)) = w

EndsWithSpace(s) ==
    \E w \in WhiteSpace : Len(s) >= Len(w) /\ SubSeq(s, Len(s) - Len(w) + 1, Len(s)) = w

RECURSIVE TrimStart(_)
TrimStart(s) ==
    IF StartsWithSpace(s)
    THEN LET w == CHOOSE w \in WhiteSpace : Len(s) >= Len(w) /\ SubSeq(s, 1, Len(w)) = w
         IN  TrimStart(SubSeq(s, Len(w) + 1, Len(s)))
    ELSE s

RECURSIVE TrimEnd(_)
TrimEnd(s) ==
    IF EndsWithSpace(s)
    THEN LET w == CHOOSE w \in WhiteSpace :
                     Len(s) >= Len(w) /\ SubSeq(s, Len(s) - Len(w) + 1, Len(s)) = w
         IN  TrimEnd(SubSeq(s, 1, Len(s) - Len(w)))
    ELSE s

\* str::trim
Trim(s) == TrimEnd(TrimStart(s))

IsDigit(c) == c >= 48 /\ c <= 57

\* the digit loop of u64::from_str: checked multiply by ten, checked add
RECURSIVE ParseDigits(_, _)
ParseDigits(s, acc) ==
    IF s = <<>> THEN [ok |-> TRUE, val |-> acc]
    ELSE IF ~IsDigit(s[1]) THEN [ok |-> FALSE, val |-> <<>>]
    ELSE LET next == MulSmall(acc, 10, s[1] - 48)
         IN  IF ~FitsU64(next) THEN [ok |-> FALSE, val |-> <<>>]
             ELSE ParseDigits(Tail(s), next)

\* str::parse::<u64>: an optional '+', then one or more decimal digits, no overflow
ParseU64(s) ==
    IF s = <<>> THEN [ok |-> FALSE, val |-> <<>>]
    ELSE IF Len(s) = 1 /\ s[1] \in {43, 45} THEN [ok |-> FALSE, val |-> <<>>]
    ELSE IF s[1] = 43 THEN ParseDigits(Tail(s), <<>>)
    ELSE ParseDigits(s, <<>>)

(***************************************************************************)
(* What a phase hands to the host                                          *)
(***************************************************************************)
Success(bytes) == [kind |-> "success", bytes |-> bytes, msg |-> ""]

Error(msg) == [kind |-> "error", bytes |-> <<>>, msg |-> msg]

(***************************************************************************)
(* tally_phase                                                             *)
(***************************************************************************)
\* nums.sort()
RECURSIVE Insert(_, _)
Insert(v, sorted) ==
    IF sorted = <<>> THEN <<v>>
    ELSE IF BigLeq(v, sorted[1]) THEN <<v>> \o sorted
    ELSE <<sorted[1]>> \o Insert(v, Tail(sorted))

RECURSIVE Sort(_)
Sort(nums) == IF nums = <<>> THEN <<>> ELSE Insert(nums[1], Sort(Tail(nums)))

\* nums[middle - 1] + nums[middle] in u64: with overflow checks a sum past
\* 2^64 - 1 panics, without them it wraps
AddU64(a, b, checks) ==
    LET sum == BigAdd(a, b)
    IN  IF FitsU64(sum) THEN [panic |-> FALSE, val |-> sum]
        ELSE IF checks THEN [panic |-> TRUE, val |-> <<>>]
        ELSE [panic |-> FALSE, val |-> WrapU64(sum)]

MidIndex(n) == n \div 2

median(nums, checks) ==
    LET sorted == Sort(nums)
        middle == MidIndex(Len(nums))
    IN  IF Len(nums) % 2 = 0
        THEN IF middle = 0
             THEN [panic |-> TRUE, val |-> <<>>]
             ELSE LET sum == AddU64(sorted[middle], sorted[middle + 1], checks)
                  IN  IF sum.panic THEN sum
                      ELSE [panic |-> FALSE, val |-> DivSmall(sum.val, 2).q]
        ELSE [panic |-> FALSE, val |-> sorted[middle + 1]]

\* a reveal that does not parse counted as 0 instead of skipped
RevealPriceOrZero(reveal) ==
    IF ~IsUtf8(reveal) \/ ~ParseU64(Trim(reveal)).ok THEN [ok |-> TRUE, val |-> <<>>]
    ELSE ParseU64(Trim(reveal))

\* one pass of the loop body: the price of a reveal, or ok = FALSE for `continue`
RevealPrice(reveal) ==
    IF ~IsUtf8(reveal) THEN [ok |-> FALSE, val |-> <<>>]
    ELSE ParseU64(Trim(reveal))

RECURSIVE CollectPrices(_, _)
CollectPrices(rs, prices) ==
    IF rs = <<>> THEN prices
    ELSE LET p == RevealPrice(rs[1])
         IN  CollectPrices(Tail(rs), IF p.ok THEN Append(prices, p.val) ELSE prices)

\* the emptiness test left out
NoPricesUnchecked(prices) == FALSE

NoPrices(prices) == prices = <<>>

NoPrice == [panic |-> FALSE, val |-> <<>>]

\* the locals and the outcome of one invocation: the results emitted, and
\* whether it returned Ok(()), returned Err(e) or panicked
Tallied(reveals_ok, prices, final_price, emitted, ret) ==
    [ran |-> TRUE, reveals_ok |-> reveals_ok, prices |-> prices,
     final_price |-> final_price, emitted |-> emitted, ret |-> ret]

\* get_reveals()? on an Err: the error is returned, nothing was emitted
RevealsFailed == Tallied(FALSE, <<>>, NoPrice, <<>>, "Err")

tally_phase(got, checks) ==
    IF ~got.ok THEN RevealsFailed
    ELSE LET prices == CollectPrices(got.reveals, <<>>)
         IN  IF NoPrices(prices)
             THEN Tallied(TRUE, prices, NoPrice,
                          <<Error("No consensus among revealed results")>>, "Ok")
             ELSE LET final_price == median(prices, checks)
                  IN  IF final_price.panic
                      THEN Tallied(TRUE, prices, final_price, <<>>, "Panic")
                      ELSE Tallied(TRUE, prices, final_price,
                                   <<Success(to_string(final_price.val))>>, "Ok")

(***************************************************************************)
(* f64: a value is NaN, an infinity, or (-1)^neg * m * 2^e with m an exact *)
(* natural number below 2^53 (round to nearest, ties to even)              *)
(***************************************************************************)
RECURSIVE BitLenSmall(_)
BitLenSmall(n) == IF n = 0 THEN 0 ELSE 1 + BitLenSmall(n \div 2)

BitLen(x) == IF x = <<>> THEN 0 ELSE 8 * (Len(x) - 1) + BitLenSmall(x[Len(x)])

IsOdd(x) == x # <<>> /\ x[1] % 2 = 1

\* x * 2^n
ShiftLeft(x, n) ==
    IF x = <<>> THEN <<>>
    ELSE [i \in 1..(n \div 8) |-> 0] \o MulSmall(x, 2 ^ (n % 8), 0)

\* floor(x / 2^n), and whether a one bit was shifted out
ShiftRight(x, n) ==
    LET bytes == IF n \div 8 < Len(x) THEN n \div 8 ELSE Len(x)
        qr == DivSmall(SubSeq(x, bytes + 1, Len(x)), 2 ^ (n % 8))
    IN  [q |-> qr.q, lost |-> qr.r # 0 \/ \E i \in 1..bytes : x[i] # 0]

RECURSIVE BigMul(_, _)
BigMul(x, y) ==
    IF x = <<>> \/ y = <<>> THEN <<>>
    ELSE BigAdd(IF y[1] = 0 THEN <<>> ELSE MulSmall(x, y[1], 0),
                Norm(<<0>> \o BigMul(x, Tail(y))))

NaN == [kind |-> "nan", neg |-> FALSE, m |-> <<>>, e |-> 0]

Infinity(neg) == [kind |-> "inf", neg |-> neg, m |-> <<>>, e |-> 0]

Finite(neg, m, e) == [kind |-> "fin", neg |-> neg, m |-> m, e |-> e]

\* whether rounding takes the upper neighbour: more than half, or half and odd
RoundsUp(half, rest, odd) == half /\ (rest \/ odd)

\* the f64 nearest to (x + f) * 2^e, where 0 <= f < 1 and f # 0 iff sticky
RoundToF64(neg, x, e, sticky) ==
    LET l == BitLen(x)
        drop == IF l - 53 > -1074 - e THEN l - 53 ELSE -1074 - e
    IN  IF drop <= 0 THEN Finite(neg, x, e)
        ELSE LET s1 == ShiftRight(x, drop - 1)
                 q == ShiftRight(s1.q, 1).q
                 up == RoundsUp(IsOdd(s1.q), s1.lost \/ sticky, IsOdd(q))
                 m == IF up THEN BigAdd(q, <<1>>) ELSE q
             IN  IF BitLen(m) + e + drop > 1024 THEN Infinity(neg)
                 ELSE Finite(neg, m, e + drop)

\* x * 10^n, six decimal places at a time
RECURSIVE Times10(_, _)
Times10(x, n) ==
    IF n = 0 \/ x = <<>> THEN x
    ELSE IF n >= 6 THEN Times10(MulSmall(x, 1000000, 0), n - 6)
    ELSE Times10(MulSmall(x, 10, 0), n - 1)

\* floor(x / 10^n), and whether a remainder was dropped
RECURSIVE Div10(_, _, _)
Div10(x, n, lost) ==
    IF n = 0 \/ x = <<>> THEN [q |-> x, lost |-> lost]
    ELSE LET qr == DivSmall(x, IF n >= 6 THEN 1000000 ELSE 10)
         IN  Div10(qr.q, IF n >= 6 THEN n - 6 ELSE n - 1, lost \/ qr.r # 0)

\* the f64 nearest to d * 10^dexp (dec2flt is correctly rounded)
DecimalToF64(neg, d, dexp) ==
    IF d = <<>> THEN Finite(neg, <<>>, 0)
    ELSE IF dexp >= 0
    THEN IF dexp > 310 THEN Infinity(neg)
         ELSE RoundToF64(neg, Times10(d, dexp), 0, FALSE)
    ELSE LET n == -dexp
             want == 56 + 4 * n - BitLen(d)
             s == IF want > 0 THEN want ELSE 0
         IN  IF BitLen(d) - 3 * n < -1080 THEN Finite(neg, <<>>, 0)
             ELSE LET q == Div10(ShiftLeft(d, s), n, FALSE)
                  IN  RoundToF64(neg, q.q, -s, q.lost)

\* a * b in f64
F64Mul(a, b) ==
    IF a.kind = "nan" \/ b.kind = "nan" THEN NaN
    ELSE IF a.kind = "inf" \/ b.kind = "inf"
    THEN IF (a.kind = "fin" /\ a.m = <<>>) \/ (b.kind = "fin" /\ b.m = <<>>)
         THEN NaN
         ELSE Infinity(a.neg # b.neg)
    ELSE RoundToF64(a.neg # b.neg, BigMul(a.m, b.m), a.e + b.e, FALSE)

\* the fraction cut off instead of rounded
HalfAwayTruncating(half, rest) == FALSE

\* whether f64::round moves the magnitude up: at a fraction of one half or more
HalfAway(half, rest) == half

\* f64::round: to the nearest integer, a tie away from zero
F64Round(a) ==
    IF a.kind # "fin" \/ a.e >= 0 THEN a
    ELSE LET s1 == ShiftRight(a.m, -a.e - 1)
             q == ShiftRight(s1.q, 1).q
         IN  Finite(a.neg, IF HalfAway(IsOdd(s1.q), s1.lost) THEN BigAdd(q, <<1>>) ELSE q, 0)

\* `as u64`: NaN to 0, below 0 to 0, above u64::MAX to u64::MAX, else truncated
CastU64(a) ==
    IF a.kind = "nan" THEN <<>>
    ELSE IF a.neg THEN <<>>
    ELSE IF a.kind = "inf" THEN U64_MAX
    ELSE IF a.e < 0 THEN ShiftRight(a.m, -a.e).q
    ELSE IF BitLen(a.m) + a.e > 64 THEN U64_MAX
    ELSE ShiftLeft(a.m, a.e)

\* 1_000_000.0
Million == Finite(FALSE, <<64, 66, 15>>, 0)

(***************************************************************************)
(* str::parse::<f64>                                                       *)
(***************************************************************************)
RECURSIVE DigitRun(_, _)
DigitRun(s, i) == IF i <= Len(s) /\ IsDigit(s[i]) THEN DigitRun(s, i + 1) ELSE i

Lower(s) == [i \in 1..Len(s) |-> IF s[i] >= 65 /\ s[i] <= 90 THEN s[i] + 32 ELSE s[i]]

RECURSIVE BigDecimal(_, _)
BigDecimal(s, acc) ==
    IF s = <<>> THEN acc ELSE BigDecimal(Tail(s), MulSmall(acc, 10, s[1] - 48))

\* the exponent's digits, accumulated while below 0x10000
RECURSIVE ExpDigits(_, _)
ExpDigits(s, acc) ==
    IF s = <<>> THEN acc
    ELSE ExpDigits(Tail(s), IF acc < 65536 THEN 10 * acc + (s[1] - 48) ELSE acc)

NotANumber == [ok |-> FALSE, kind |-> "", neg |-> FALSE, d |-> <<>>, dexp |-> 0]

Special(kind, neg) == [ok |-> TRUE, kind |-> kind, neg |-> neg, d |-> <<>>, dexp |-> 0]

Decimal(neg, digits, dexp) ==
    [ok |-> TRUE, kind |-> "fin", neg |-> neg, d |-> BigDecimal(digits, <<>>), dexp |-> dexp]

\* the grammar of f64::from_str:
\* [sign] (digits [. digits] | . digits) [(e|E) [sign] digits], or inf, infinity, nan
ParseDecimal(s) ==
    IF s = <<>> THEN NotANumber
    ELSE LET signed == s[1] \in {43, 45}
             neg == s[1] = 45
             t == IF signed THEN Tail(s) ELSE s
             n == Len(t)
             i == DigitRun(t, 1)
             j == IF i <= n /\ t[i] = 46 THEN DigitRun(t, i + 1) ELSE i
             int == SubSeq(t, 1, i - 1)
             frac == SubSeq(t, i + 1, j - 1)
             k == IF j <= n /\ t[j] \in {69, 101}
                  THEN IF j + 1 <= n /\ t[j + 1] \in {43, 45} THEN j + 2 ELSE j + 1
                  ELSE j
             expNeg == k = j + 2 /\ t[j + 1] = 45
             expDigits == SubSeq(t, k, n)
         IN  IF t = <<>> THEN NotANumber
             ELSE IF Len(int) + Len(frac) = 0
             THEN IF Lower(t) \in {<<105, 110, 102>>,
                                   <<105, 110, 102, 105, 110, 105, 116, 121>>}
                  THEN Special("inf", neg)
                  ELSE IF Lower(t) = <<110, 97, 110>> THEN Special("nan", neg)
                  ELSE NotANumber
             ELSE IF j > n THEN Decimal(neg, int \o frac, -Len(frac))
             ELSE IF k = j \/ expDigits = <<>> \/ DigitRun(expDigits, 1) <= Len(expDigits)
             THEN NotANumber
             ELSE LET x == ExpDigits(expDigits, 0)
                  IN  Decimal(neg, int \o frac, (IF expNeg THEN -x ELSE x) - Len(frac))

\* str::parse::<f64>
ParseF64(s) ==
    LET p == ParseDecimal(s)
    IN  IF ~p.ok THEN [ok |-> FALSE, val |-> NaN]
        ELSE IF p.kind = "nan" THEN [ok |-> TRUE, val |-> NaN]
        ELSE IF p.kind = "inf" THEN [ok |-> TRUE, val |-> Infinity(p.neg)]
        ELSE [ok |-> TRUE, val |-> DecimalToF64(p.neg, p.d, p.dexp)]

(***************************************************************************)
(* serde_json::from_slice::<PolymarketMarketResponse>, for bodies whose    *)
(* strings hold no escape sequence and whose values are strings, numbers   *)
(* or literals: one JSON object with exactly one string field "mid"        *)
(* (other fields are ignored), or a one-element array holding the string   *)
(***************************************************************************)
RECURSIVE SkipSpace(_, _)
SkipSpace(b, i) ==
    IF i <= Len(b) /\ b[i] \in {9, 10, 13, 32} THEN SkipSpace(b, i + 1) ELSE i

\* the index of the quote closing the string whose text starts at j, or 0
RECURSIVE StringEnd(_, _)
StringEnd(b, j) ==
    IF j > Len(b) THEN 0
    ELSE IF b[j] = 34 THEN j
    ELSE IF b[j] < 32 \/ b[j] = 92 THEN 0
    ELSE StringEnd(b, j + 1)

IsScalarChar(c) ==
    IsDigit(c) \/ c \in {43, 45, 46} \/ (c >= 65 /\ c <= 90) \/ (c >= 97 /\ c <= 122)

RECURSIVE ScalarEnd(_, _)
ScalarEnd(b, i) == IF i <= Len(b) /\ IsScalarChar(b[i]) THEN ScalarEnd(b, i + 1) ELSE i

\* true, false, null or a number
IsScalar(t) ==
    \/ t \in {<<116, 114, 117, 101>>, <<102, 97, 108, 115, 101>>, <<110, 117, 108, 108>>}
    \/ /\ t # <<>>
       /\ IsDigit(t[1]) \/ (t[1] = 45 /\ Len(t) >= 2 /\ IsDigit(t[2]))
       /\ ParseDecimal(t).ok

NoMid == [ok |-> FALSE, mid |-> <<>>]

\* the members of an object from the key at i on; found is the field mid so far
RECURSIVE Members(_, _, _)
Members(b, i, found) ==
    LET n == Len(b)
        kEnd == IF i <= n /\ b[i] = 34 THEN StringEnd(b, i + 1) ELSE 0
        key == SubSeq(b, i + 1, kEnd - 1)
        c == SkipSpace(b, kEnd + 1)
        v == SkipSpace(b, c + 1)
        isStr == v <= n /\ b[v] = 34
        vEnd == IF isStr THEN StringEnd(b, v + 1) ELSE ScalarEnd(b, v) - 1
        val == SubSeq(b, v + 1, vEnd - 1)
        okVal == IF isStr THEN vEnd # 0 /\ IsUtf8(val) ELSE IsScalar(SubSeq(b, v, vEnd))
        isMid == key = <<109, 105, 100>>
        d == SkipSpace(b, vEnd + 1)
    IN  IF kEnd = 0 \/ ~IsUtf8(key) \/ c > n \/ b[c] # 58 \/ ~okVal THEN NoMid
        ELSE IF isMid /\ (~isStr \/ found.ok) THEN NoMid
        ELSE LET f == IF isMid THEN [ok |-> TRUE, mid |-> val] ELSE found
             IN  IF d > n THEN NoMid
                 ELSE IF b[d] = 125
                 THEN IF SkipSpace(b, d + 1) > n /\ f.ok THEN f ELSE NoMid
                 ELSE IF b[d] = 44 THEN Members(b, SkipSpace(b, d + 1), f)
                 ELSE NoMid

Deserialize(b) ==
    LET n == Len(b)
        i == SkipSpace(b, 1)
        j == SkipSpace(b, i + 1)
        sEnd == IF j <= n /\ b[j] = 34 THEN StringEnd(b, j + 1) ELSE 0
        close == SkipSpace(b, sEnd + 1)
    IN  IF i > n THEN NoMid
        ELSE IF b[i] = 123
        THEN IF j <= n /\ b[j] = 125 THEN NoMid ELSE Members(b, j, NoMid)
        ELSE IF b[i] = 91
        THEN IF /\ sEnd # 0
                /\ IsUtf8(SubSeq(b, j + 1, sEnd - 1))
                /\ close <= n /\ b[close] = 93
                /\ SkipSpace(b, close + 1) > n
             THEN [ok |-> TRUE, mid |-> SubSeq(b, j + 1, sEnd - 1)]
             ELSE NoMid
        ELSE NoMid

(***************************************************************************)
(* execution_phase                                                         *)
(***************************************************************************)
\* (mid_val * 1_000_000.0).round() as u64
Scale(mid_val) == CastU64(F64Round(F64Mul(mid_val, Million)))

\* the locals and the outcome of one invocation
Executed(mid_str, scaled_mid, emitted, ret) ==
    [ran |-> TRUE, mid_str |-> mid_str, scaled_mid |-> scaled_mid,
     emitted |-> emitted, ret |-> ret]

\* a `?` on an Err: the error is returned, nothing was emitted
Propagated == Executed(<<>>, <<>>, <<>>, "Err")

\* is_ok is false: the status and the body are logged, then the error is reported
Rejected(response) ==
    IF ~IsUtf8(response.bytes) THEN Propagated
    ELSE Executed(<<>>, <<>>, <<Error("Error while fetching series information")>>, "Ok")

execution_phase(inputs, response) ==
    IF ~IsUtf8(inputs) THEN Propagated
    ELSE IF ~response.ok THEN Rejected(response)
    ELSE LET series_data == Deserialize(response.bytes)
         IN  IF ~series_data.ok THEN Propagated
             ELSE LET mid_str == series_data.mid
                      mid_val == ParseF64(mid_str)
                  IN  IF ~mid_val.ok
                      THEN Executed(mid_str, <<>>,
                                    <<Error("Failed to parse mid from execution program")>>,
                                    "Ok")
                      ELSE LET scaled_mid == Scale(mid_val.val)
                           IN  Executed(mid_str, scaled_mid,
                                        <<Success(to_string(scaled_mid))>>, "Ok")

(***************************************************************************)
(* The ABI encoding of test_abi.rs                                         *)
(***************************************************************************)
Zeros(n) == [i \in 1..n |-> 0]

\* the bytes in little-endian order
to_le_bytes(x) == [i \in 1..8 |-> IF i <= Len(x) THEN x[i] ELSE 0]

\* u64::to_be_bytes
to_be_bytes(x) == [i \in 1..8 |-> IF 9 - i <= Len(x) THEN x[9 - i] ELSE 0]

Word(x) == Zeros(24) \o to_be_bytes(x)

RECURSIVE Elements(_)
Elements(prices) ==
    IF prices = <<>> THEN <<>> ELSE Word(prices[1]) \o Elements(Tail(prices))

OffsetWord == Zeros(31) \o <<32>>

\* the length in bytes instead of in elements
LengthWordInBytes(prices) == Word(FromInt(32 * Len(prices)))

LengthWord(prices) == Word(FromInt(Len(prices)))

AbiEncode(prices) == OffsetWord \o LengthWord(prices) \o Elements(prices)

(***************************************************************************)
(* The inputs the environment supplies                                     *)
(***************************************************************************)
MaxReveals == 3

MaxNodes == 3

MaxPrices == 3

\* reveal bodies: decimal integers (padded with white space, signed, with
\* leading zeros, 2^63, u64::MAX), and malformed ones: past u64::MAX, negative,
\* not UTF-8, not an integer, empty
RevealPool ==
    {<<49>>, <<32, 50, 10>>, <<43, 55>>, <<57, 48, 53, 48, 48, 48>>,
     <<194, 160, 51>>, <<48, 48, 49, 50>>,
     <<57, 50, 50, 51, 51, 55, 50, 48, 51, 54, 56, 53, 52, 55, 55, 53, 56, 48, 56>>,
     <<49, 56, 52, 52, 54, 55, 52, 52, 48, 55, 51, 55, 48, 57, 53, 53, 49, 54, 49, 53>>,
     <<49, 56, 52, 52, 54, 55, 52, 52, 48, 55, 51, 55, 48, 57, 53, 53, 49, 54, 49, 54>>,
     <<45, 48>>, <<255, 254>>, <<48, 46, 57>>, <<>>}

\* the data request's input
InputPool == {<<88, 89, 90>>, <<32, 50, 49, 55, 52, 50, 54, 51, 51, 49, 52, 51, 52, 54, 51, 57, 48, 54, 50, 57, 48, 53, 54, 57, 48, 53, 48, 49, 53, 53, 56, 50, 54, 50, 52, 49, 53, 51, 51, 48, 54, 55, 50, 55, 50, 55, 51, 54, 56, 57, 55, 54, 49, 52, 57, 53, 48, 52, 56, 56, 49, 53, 54, 56, 52, 55, 57, 52, 57, 57, 51, 56, 56, 51, 54, 52, 53, 53, 32, 10>>, <<255>>}

MidBody(mid) == <<123, 34, 109, 105, 100, 34, 58, 34>> \o mid \o <<34, 125>>

\* mid texts the quote service may answer with
MidPool ==
    {<<48, 46, 57, 48, 53>>, <<48, 46, 48, 48, 48, 50, 53, 49>>, <<48, 46, 48, 48, 48, 50, 52, 57>>,
     <<48, 46, 57, 48>>,
     <<48, 46, 57, 48, 48>>,
     <<48, 46, 57>>,
     <<48, 46, 48, 48, 48, 49, 50, 52, 53>>,
     <<48, 46, 48, 48, 48, 48, 48, 48, 53>>,
     <<48, 46, 48, 48, 48, 48, 48, 49>>,
     <<49>>,
     <<48>>,
     <<48, 46, 53>>,
     <<49, 46, 49, 53>>,
     <<48, 46, 49, 50, 51, 52, 53, 54>>,
     <<48, 46, 49, 50, 51, 52, 53, 54, 53>>,
     <<57, 48, 48, 55, 49, 57, 57, 50, 53, 52, 46, 55, 52, 48, 57, 57, 51>>,
     <<50, 50, 53, 49, 55, 57, 57, 56, 49, 51, 46, 54, 56, 53, 50, 52, 55>>,
     <<49, 56, 52, 52, 54, 55, 52, 52, 48, 55, 51, 55, 48, 57, 46, 53, 53, 49, 54, 49, 53>>,
     <<49, 56, 52, 52, 54, 55, 52, 52, 48, 55, 51, 55, 48, 57, 46, 53, 53, 49, 54, 49, 54>>,
     <<49, 101, 49, 51>>,
     <<49, 101, 51, 48>>,
     <<45, 49>>,
     <<45, 48, 46, 48, 48, 48, 48, 48, 48, 52>>,
     <<45, 48>>,
     <<105, 110, 102>>,
     <<45, 105, 110, 102>>,
     <<78, 97, 78>>,
     <<43, 48, 46, 50, 53>>,
     <<46, 53>>,
     <<53, 46>>,
     <<49, 101, 45, 55>>,
     <<50, 46, 53, 69, 45, 49>>,
     <<>>,
     <<97, 98, 99>>,
     <<48, 46, 57, 120>>,
     <<32, 48, 46, 57>>,
     <<49, 101>>,
     <<48, 44, 57>>,
     <<48, 46, 49, 50, 53, 48, 48, 48, 53>>,
     <<48, 46, 49, 50, 53, 48, 48, 48, 53, 48>>}

\* response bodies that are no object with one string field mid, and two
\* well-formed ones with white space, another field or the array form
OtherBodies ==
    {<<123, 125>>,
     <<123, 34, 109, 105, 100, 34, 58, 48, 46, 57, 48, 53, 125>>,
     <<123, 34, 109, 105, 100, 34, 58, 110, 117, 108, 108, 125>>,
     <<111, 111, 112, 115>>,
     <<>>,
     <<123, 34, 109, 105, 100, 34, 58, 34, 48, 46, 57, 48, 53, 34>>,
     <<123, 34, 109, 105, 100, 34, 58, 34, 48, 46, 53, 34, 44, 34, 109, 105, 100, 34, 58, 34, 48, 46, 54, 34, 125>>,
     <<123, 34, 112, 114, 105, 99, 101, 34, 58, 34, 48, 46, 53, 34, 125>>,
     <<32, 123, 32, 34, 109, 105, 100, 34, 32, 58, 32, 34, 48, 46, 57, 48, 53, 34, 32, 125, 32, 10>>,
     <<123, 34, 116, 115, 34, 58, 49, 44, 34, 109, 105, 100, 34, 58, 34, 48, 46, 57, 48, 53, 34, 125>>,
     <<91, 34, 48, 46, 57, 48, 53, 34, 93>>,
     <<91, 48, 46, 57, 48, 53, 93>>,
     <<255, 254>>}

ResponsePool ==
    [ok : BOOLEAN, bytes : {MidBody(m) : m \in MidPool} \cup OtherBodies]

\* the mids the nodes of one data request observe
NodeMids == {<<48, 46, 57, 48, 52, 57, 57, 56>>, <<48, 46, 57, 48, 53>>, <<48, 46, 57, 48, 53, 48, 48, 50>>, <<49, 101, 49, 51>>}

PricePool ==
    {<<>>, <<1>>, <<40, 154, 1>>, <<24, 168, 13>>, <<0, 0, 0, 0, 0, 0, 0, 128>>, U64_MAX}

(***************************************************************************)
(* State                                                                   *)
(***************************************************************************)
TallyIdle ==
    [ran |-> FALSE, reveals_ok |-> FALSE, prices |-> <<>>, final_price |-> NoPrice,
     emitted |-> <<>>, ret |-> ""]

ExecIdle ==
    [ran |-> FALSE, mid_str |-> <<>>, scaled_mid |-> <<>>, emitted |-> <<>>, ret |-> ""]

NoResponse == [ok |-> FALSE, bytes |-> <<>>]

Idle ==
    /\ overflowChecks \in BOOLEAN
    /\ reveals = <<>>
    /\ tally = TallyIdle
    /\ series_response = NoResponse
    /\ exec = ExecIdle
    /\ scaled_prices = <<>>
    /\ abi_encoded = <<>>

(***************************************************************************)
(* The tally phase over any reveal list                                    *)
(***************************************************************************)
\* the host collects one more reveal for the tally
HostAddReveal ==
    /\ ~tally.ran
    /\ Len(reveals) < MaxReveals
    /\ \E r \in RevealPool : reveals' = Append(reveals, r)
    /\ UNCHANGED <<overflowChecks, tally, dr_inputs, series_response, exec,
                   scaled_prices, abi_encoded>>

\* the host invokes tally_phase once; get_reveals succeeds or fails
TallyPhase ==
    /\ ~tally.ran
    /\ \E ok \in BOOLEAN :
          tally' = tally_phase([ok |-> ok, reveals |-> reveals], overflowChecks)
    /\ UNCHANGED <<overflowChecks, reveals, dr_inputs, series_response, exec,
                   scaled_prices, abi_encoded>>

InitTally == Idle /\ dr_inputs = <<>>

NextTally == HostAddReveal \/ TallyPhase

SpecTally == InitTally /\ [][NextTally]_vars

(***************************************************************************)
(* The execution phase over any input and any response                     *)
(***************************************************************************)
\* the host invokes execution_phase once; http_fetch answers with any response
ExecutionPhase ==
    /\ ~exec.ran
    /\ \E response \in ResponsePool :
          /\ series_response' = response
          /\ exec' = execution_phase(dr_inputs, response)
    /\ UNCHANGED <<overflowChecks, reveals, tally, dr_inputs, scaled_prices, abi_encoded>>

InitExec == Idle /\ dr_inputs \in InputPool

NextExec == ExecutionPhase

SpecExec == InitExec /\ [][NextExec]_vars

(***************************************************************************)
(* One data request: the nodes execute, the host tallies their reveals     *)
(***************************************************************************)
\* one more node runs execution_phase, succeeds, and its payload is revealed
NodeReveals ==
    /\ ~tally.ran
    /\ Len(reveals) < MaxNodes
    /\ \E mid \in NodeMids :
          /\ series_response' = [ok |-> TRUE, bytes |-> MidBody(mid)]
          /\ exec' = execution_phase(dr_inputs, series_response')
          /\ exec'.emitted # <<>>
          /\ exec'.emitted[1].kind = "success"
          /\ reveals' = Append(reveals, exec'.emitted[1].bytes)
    /\ UNCHANGED <<overflowChecks, tally, dr_inputs, scaled_prices, abi_encoded>>

InitRequest == Idle /\ dr_inputs = <<88, 89, 90>>

NextRequest == NodeReveals \/ TallyPhase

SpecRequest == InitRequest /\ [][NextRequest]_vars

(***************************************************************************)
(* test_abi.rs over any price list                                         *)
(***************************************************************************)
\* one more element of the vec! literal
PushPrice ==
    /\ abi_encoded = <<>>
    /\ Len(scaled_prices) < MaxPrices
    /\ \E price \in PricePool : scaled_prices' = Append(scaled_prices, price)
    /\ UNCHANGED <<overflowChecks, reveals, tally, dr_inputs, series_response, exec,
                   abi_encoded>>

AbiMain ==
    /\ abi_encoded = <<>>
    /\ abi_encoded' = AbiEncode(scaled_prices)
    /\ UNCHANGED <<overflowChecks, reveals, tally, dr_inputs, series_response, exec,
                   scaled_prices>>

InitAbi == Idle /\ dr_inputs = <<>>

NextAbi == PushPrice \/ AbiMain

SpecAbi == InitAbi /\ [][NextAbi]_vars

(***************************************************************************)
(* Reference notions the properties are stated with                        *)
(***************************************************************************)
Range(f) == {f[i] : i \in DOMAIN f}

AllDigits(s) == \A i \in 1..Len(s) : IsDigit(s[i])

\* a reveal the tally counts: UTF-8 text that, white space trimmed, is an
\* optional '+' and decimal digits of a value up to 2^64 - 1
ValidReveal(r) ==
    /\ IsUtf8(r)
    /\ LET t == Trim(r)
           digits == IF t # <<>> /\ t[1] = 43 THEN Tail(t) ELSE t
       IN  digits # <<>> /\ AllDigits(digits) /\ BigLeq(BigDecimal(digits, <<>>), U64_MAX)

\* the k-th smallest element of nums, by counting
Kth(nums, k) ==
    CHOOSE v \in Range(nums) :
        /\ Cardinality({i \in DOMAIN nums : BigLess(nums[i], v)}) < k
        /\ Cardinality({i \in DOMAIN nums : BigLeq(nums[i], v)}) >= k

\* the median in exact arithmetic
ExactMedian(nums) ==
    LET n == Len(nums)
    IN  IF n % 2 = 1 THEN Kth(nums, (n + 1) \div 2)
        ELSE DivSmall(BigAdd(Kth(nums, n \div 2), Kth(nums, n \div 2 + 1)), 2).q

\* round(d * 10^dexp * 1,000,000) in exact arithmetic, a tie away from zero
ExactScale(d, dexp) ==
    IF dexp + 6 >= 0 THEN Times10(d, dexp + 6)
    ELSE LET qr == DivSmall(Div10(d, -dexp - 7, FALSE).q, 10)
         IN  IF qr.r >= 5 THEN BigAdd(qr.q, <<1>>) ELSE qr.q

\* the execution phase got as far as a mid text
HasMid ==
    /\ exec.ran
    /\ IsUtf8(dr_inputs)
    /\ series_response.ok
    /\ Deserialize(series_response.bytes).ok

Mid == ParseDecimal(Deserialize(series_response.bytes).mid)

NoSuccess(emitted) == \A i \in DOMAIN emitted : emitted[i].kind # "success"

OneError(emitted) == Len(emitted) = 1 /\ emitted[1].kind = "error"

\* the value of a big-endian byte string
RECURSIVE Reverse(_)
Reverse(s) == IF s = <<>> THEN <<>> ELSE Append(Reverse(Tail(s)), s[1])

FromBE(bytes) == Norm(Reverse(bytes))

WordAt(bytes, i) == SubSeq(bytes, 32 * i + 1, 32 * i + 32)

\* a number below 2^24 as an integer
Small(x) ==
    (IF Len(x) >= 1 THEN x[1] ELSE 0) + (IF Len(x) >= 2 THEN 256 * x[2] ELSE 0)
      + (IF Len(x) >= 3 THEN 65536 * x[3] ELSE 0)

\* the consumer's decoding of a dynamic unsigned-integer array: the word at 0 is
\* the byte offset of the length word, the elements follow the length word
AbiDecode(bytes) ==
    LET offset == FromBE(WordAt(bytes, 0))
        at == Small(offset) \div 32
        n == FromBE(WordAt(bytes, at))
    IN  IF Len(bytes) < 64 \/ Len(offset) > 3 \/ Small(offset) % 32 # 0
           \/ Len(bytes) < 32 * (at + 1) \/ Len(n) > 3
           \/ Len(bytes) < 32 * (at + 1 + Small(n))
        THEN [ok |-> FALSE, values |-> <<>>]
        ELSE [ok |-> TRUE,
              values |-> [i \in 1..Small(n) |-> FromBE(WordAt(bytes, at + i))]]

Price105000 == <<40, 154, 1>>

Price895000 == <<24, 168, 13>>

(***************************************************************************)
(* Properties of tally_phase (SpecTally)                                   *)
(***************************************************************************)
\* C1: when get_reveals succeeds and no reveal of the list (the empty list
\* included) is valid, tally_phase emits exactly the error result "No consensus
\* among revealed results" and no success result.
C1_NoConsensus ==
    (tally.ran /\ tally.reveals_ok /\ \A i \in DOMAIN reveals : ~ValidReveal(reveals[i]))
      => tally.emitted = <<Error("No consensus among revealed results")>>

C1_Witness ==
    /\ tally.ran /\ tally.reveals_ok
    /\ Len(reveals) = 3
    /\ <<255, 254>> \in Range(reveals)
    /\ \A i \in DOMAIN reveals : ~ValidReveal(reveals[i])
    /\ OneError(tally.emitted)

\* C2: the outcome of tally_phase on any reveal list (the prices collected, the
\* results emitted, the way it returns) is its outcome on the same list with
\* the invalid reveals removed.
C2_InvalidSkipped ==
    (tally.ran /\ tally.reveals_ok)
      => LET clean == tally_phase([ok |-> TRUE, reveals |-> SelectSeq(reveals, ValidReveal)],
                                  overflowChecks)
         IN  /\ tally.prices = clean.prices
             /\ tally.emitted = clean.emitted
             /\ tally.ret = clean.ret

C2_Witness ==
    /\ tally.ran /\ tally.reveals_ok
    /\ Len(reveals) = 3
    /\ ValidReveal(reveals[1]) /\ ~ValidReveal(reveals[2]) /\ ValidReveal(reveals[3])
    /\ Len(tally.prices) = 2
    /\ ~NoSuccess(tally.emitted)

\* C3: for every non-empty list of u64 prices median returns, without
\* panicking, the middle element of the ascending order (odd length) or the
\* floor of the exact half sum of the two middle elements (even length), for
\* all values up to 2^64 - 1.
C3_MedianExact ==
    (tally.ran /\ tally.prices # <<>>)
      => /\ ~tally.final_price.panic
         /\ tally.final_price.val = ExactMedian(tally.prices)

\* C4: every invocation of tally_phase, also when get_reveals fails, emits
\* exactly one result and returns normally.
C4_OneResultAlways == tally.ran => (Len(tally.emitted) = 1 /\ tally.ret = "Ok")

(***************************************************************************)
(* Properties of execution_phase (SpecExec)                                *)
(***************************************************************************)
HardFailure ==
    \/ ~IsUtf8(dr_inputs)
    \/ ~series_response.ok
    \/ ~Deserialize(series_response.bytes).ok
    \/ ~Mid.ok

\* C5: every hard failure of execution_phase (input not UTF-8, fetch not
\* successful whatever the body, body that does not deserialize, mid that is
\* no number) ends with exactly one error result emitted and no success.
C5_FailureReported == (exec.ran /\ HardFailure) => OneError(exec.emitted)

\* C6 as stated: for every non-negative decimal mid whose exactly scaled value
\* fits in 64 bits, the success payload is the decimal text of
\* round(v * 1,000,000) computed exactly.
C6_ExactRounding ==
    (HasMid /\ Mid.ok /\ Mid.kind = "fin" /\ ~Mid.neg
       /\ FitsU64(ExactScale(Mid.d, Mid.dexp)))
      => exec.emitted = <<Success(to_string(ExactScale(Mid.d, Mid.dexp)))>>

PlainFraction(s) == 46 \in Range(s) /\ 69 \notin Range(s) /\ 101 \notin Range(s)

\* C6 as amended: for every non-negative decimal mid with at most six
\* fractional digits whose scaled value is below 2^51 the success payload is
\* the decimal text of v * 1,000,000 exactly; and for every numeric mid with a
\* fractional part, appending a zero to the fraction leaves the emitted
\* results unchanged.
C6_ScalingInDomain ==
    /\ (HasMid /\ Mid.ok /\ Mid.kind = "fin" /\ ~Mid.neg /\ Mid.dexp >= -6
          /\ BitLen(ExactScale(Mid.d, Mid.dexp)) <= 51)
         => exec.emitted = <<Success(to_string(ExactScale(Mid.d, Mid.dexp)))>>
    /\ (HasMid /\ Mid.ok /\ PlainFraction(exec.mid_str))
         => exec.emitted
              = execution_phase(dr_inputs,
                                [ok |-> TRUE,
                                 bytes |-> MidBody(exec.mid_str \o <<48>>)]).emitted

C6_Witness ==
    /\ HasMid
    /\ exec.mid_str = <<48, 46, 57, 48, 48>>
    /\ exec.emitted = <<Success(<<57, 48, 48, 48, 48, 48>>)>>

\* C9: a mid that parses to a number whose scaled value is outside
\* 0..2^64 - 1 (too large, negative, infinite, not a number) makes
\* execution_phase report a failure and emit no success payload.
C9_OverflowReported ==
    (HasMid /\ Mid.ok
       /\ \/ Mid.kind \in {"nan", "inf"}
          \/ Mid.neg /\ ExactScale(Mid.d, Mid.dexp) # <<>>
          \/ ~Mid.neg /\ ~FitsU64(ExactScale(Mid.d, Mid.dexp)))
      => (NoSuccess(exec.emitted) /\ OneError(exec.emitted))

(***************************************************************************)
(* Properties of the ABI encoding (SpecAbi)                                *)
(***************************************************************************)
\* C7: the encoding of N prices is 32 * (2 + N) bytes: the word 0x20, the
\* word N, then for each price in order 24 zero bytes and its 8 big-endian
\* bytes.
C7_Layout ==
    abi_encoded # <<>>
      => LET n == Len(scaled_prices)
         IN  /\ Len(abi_encoded) = 32 * (2 + n)
             /\ FromBE(WordAt(abi_encoded, 0)) = <<32>>
             /\ FromBE(WordAt(abi_encoded, 1)) = FromInt(n)
             /\ \A i \in 1..n :
                   /\ SubSeq(WordAt(abi_encoded, 1 + i), 1, 24) = Zeros(24)
                   /\ FromBE(SubSeq(WordAt(abi_encoded, 1 + i), 25, 32)) = scaled_prices[i]

C7_Witness ==
    /\ abi_encoded # <<>>
    /\ Len(scaled_prices) = 3
    /\ scaled_prices[1] = U64_MAX /\ scaled_prices[2] = <<>> /\ scaled_prices[3] = <<1>>
    /\ Len(abi_encoded) = 160

C10_Composition ==
    (tally.ran /\ tally.reveals_ok /\ Len(reveals) >= 1)
      => /\ Len(tally.prices) = Len(reveals)
         /\ tally.emitted
              = <<Success(to_string(ExactMedian([i \in DOMAIN reveals |->
                                                    BigDecimal(reveals[i], <<>>)])))>>

====
